---- MODULE Spec2Model ----
(***************************************************************************)
(* Model of src/data_processing.py: the data preparation of a skip-gram    *)
(* word-embedding trainer.  The pure functions of the module are operators *)
(* computed the way the Python code computes them; a driver calls them on  *)
(* inputs drawn from bounded sets and records arguments and results in the *)
(* state.  Every random draw of the code (torch.rand, torch.randint) is a  *)
(* nondeterministic choice over the values the draw can return.            *)
(***************************************************************************)
EXTENDS Integers, Sequences, FiniteSets

VARIABLES
    pc,              \* which function the driver has called last
    raised,          \* Python exception that escaped the last call, or "none"
    words,           \* the `words` argument of the last call
    vocab_to_int,    \* create_lookup_tables: first returned dictionary
    int_to_vocab,    \* create_lookup_tables: second returned dictionary
    threshold,       \* subsample_words: <<numerator, denominator>> of `threshold`
    draws,           \* subsample_words: numerators of the torch.rand draws, one per token
    train_words,     \* subsample_words: first returned value
    freqs,           \* subsample_words: second returned value, word -> <<count, total>>
    idx,             \* get_target: `idx`
    window_size,     \* get_target / get_batches: `window_size`
    rand_window_size,\* get_target: the torch.randint draw
    target_words,    \* get_target: returned list
    batch_size,      \* get_batches: `batch_size`
    gen_state,       \* get_batches generator: "none", "created", "suspended", "finished"
    gen_idx,         \* get_batches generator: loop variable `idx` of the last iteration
    batches,         \* get_batches generator: everything yielded so far, in order
    valid_size,      \* cosine_similarity: `valid_size`
    valid_window,    \* cosine_similarity: `valid_window`
    valid_examples,  \* cosine_similarity: first returned value
    sim_shape        \* cosine_similarity: shape of the second returned value

vars == <<pc, raised, words, vocab_to_int, int_to_vocab, threshold, draws,
          train_words, freqs, idx, window_size, rand_window_size, target_words,
          batch_size, gen_state, gen_idx, batches, valid_size, valid_window,
          valid_examples, sim_shape>>

----------------------------------------------------------------------------
(* Bounds of the model *)

\* longest input sequence
MaxLen == 3
\* largest batch_size argument
MaxBatch == 3
\* largest window_size argument
MaxWindow == 2
\* largest valid_size argument
MaxValid == 2
\* number of rows of the embedding matrix
NumEmbeddings == 2
\* representable float32 values per unit interval (the model's precision)
FloatGrid == 4

\* the words a token can be
Vocab == {"a", "b", "c"}
\* the integer codes of an encoded sequence
Codes == 0 .. (Cardinality(Vocab) - 1)

SeqsUpTo(S, n) == UNION {[1 .. k -> S] : k \in 0 .. n}
TokenSeqs == SeqsUpTo(Vocab, MaxLen)
CodeSeqs == SeqsUpTo(Codes, MaxLen)
\* size arguments, valid and not: the code accepts any int
BatchSizes == -1 .. MaxBatch
WindowSizes == -1 .. MaxWindow
ValidSizes == -1 .. MaxValid
\* thresholds as <<numerator, denominator>>
Thresholds == {<<1, 16>>, <<1, 4>>, <<33, 64>>, <<2, 1>>}

----------------------------------------------------------------------------
(* Python built-ins used by the code *)

Min(a, b) == IF a <= b THEN a ELSE b

\* seq[i] with Python's 0-based index, negative indices counting from the end
PyIndex(seq, i) == IF i >= 0 THEN seq[i + 1] ELSE seq[Len(seq) + i + 1]

\* seq[lo:hi] for 0 <= lo <= hi
PySlice(seq, lo, hi) == SubSeq(seq, lo + 1, Min(hi, Len(seq)))

\* values torch.randint(low, high, ...) can return; empty: it raises RuntimeError
RandintRange(low, high) == low .. (high - 1)

----------------------------------------------------------------------------
(* create_lookup_tables *)

\* a Counter that keeps one entry per token
CounterAddNoMerge(c, w) == Append(c, <<w, 1>>)

\* one step of Counter(words): count a key, new keys at the end (dict order)
CounterAdd(c, w) ==
    IF \E i \in 1 .. Len(c) : c[i][1] = w
    THEN [i \in 1 .. Len(c) |-> IF c[i][1] = w THEN <<w, c[i][2] + 1>> ELSE c[i]]
    ELSE Append(c, <<w, 1>>)

RECURSIVE CounterFrom(_, _)
CounterFrom(ws, k) ==
    IF k = 0 THEN <<>> ELSE CounterAdd(CounterFrom(ws, k - 1), ws[k])

\* Counter(words): the (word, count) items in first-occurrence order
Counter(ws) == CounterFrom(ws, Len(ws))

\* a sort that leaves the items in dict order
SortedInsertUnsorted(s, item) == Append(s, item)

\* insert an item behind every item whose count is not smaller (stable)
SortedInsert(s, item) ==
    LET before == {i \in 1 .. Len(s) : \A j \in 1 .. i : s[j][2] >= item[2]}
        n == Cardinality(before)
    IN SubSeq(s, 1, n) \o <<item>> \o SubSeq(s, n + 1, Len(s))

RECURSIVE SortDescending(_, _)
SortDescending(items, k) ==
    IF k = 0 THEN <<>>
    ELSE SortedInsert(SortDescending(items, k - 1), items[k])

\* Counter.most_common(): items by descending count, ties in dict order
most_common(c) == SortDescending(c, Len(c))

\* {integer: word[0] for integer, word in enumerate(sorted_vocab)}
IntToVocab(sorted_vocab) ==
    [i \in 0 .. (Len(sorted_vocab) - 1) |-> sorted_vocab[i + 1][1]]

\* {word[0]: integer for integer, word in enumerate(sorted_vocab)}; a later
\* item with the same key overwrites an earlier one
VocabToInt(sorted_vocab) ==
    [w \in {sorted_vocab[i][1] : i \in 1 .. Len(sorted_vocab)} |->
        CHOOSE i \in 0 .. (Len(sorted_vocab) - 1) :
            /\ sorted_vocab[i + 1][1] = w
            /\ \A j \in 0 .. (Len(sorted_vocab) - 1) :
                   sorted_vocab[j + 1][1] = w => j <= i]

\* create_lookup_tables raising on an empty token sequence
create_lookup_tables_checked(ws) ==
    IF ws = <<>>
    THEN [raised |-> "EmptyInputError", vocab_to_int |-> <<>>, int_to_vocab |-> <<>>]
    ELSE [raised |-> "none",
          vocab_to_int |-> VocabToInt(most_common(Counter(ws))),
          int_to_vocab |-> IntToVocab(most_common(Counter(ws)))]

create_lookup_tables(ws) ==
    LET word_counts == Counter(ws)
        sorted_vocab == most_common(word_counts)
    IN [raised |-> "none",
        vocab_to_int |-> VocabToInt(sorted_vocab),
        int_to_vocab |-> IntToVocab(sorted_vocab)]

----------------------------------------------------------------------------
(* subsample_words *)

\* A float32 value is modelled by its numerator over FloatGrid: the model's
\* float32 has FloatGrid values per unit interval where the real one has 2^23
\* or more.  The float64 arithmetic of the code (count / total_words,
\* threshold / freq) is exact here.

\* torch.tensor(num / den): the float32 value nearest to num/den >= 0, ties
\* to the even one
Float32(num, den) ==
    LET q == (num * FloatGrid) \div den
        r == (num * FloatGrid) % den
    IN IF 2 * r < den THEN q
       ELSE IF 2 * r > den THEN q + 1
       ELSE IF q % 2 = 0 THEN q ELSE q + 1

\* torch.sqrt on a float32 value: the float32 value nearest to its square root
Sqrt32(k) ==
    CHOOSE j \in 0 .. (k + FloatGrid) :
        /\ (j = 0 \/ (2 * j - 1) * (2 * j - 1) <= 4 * k * FloatGrid)
        /\ 4 * k * FloatGrid < (2 * j + 1) * (2 * j + 1)

\* word_counts[w] of the Counter c
CountOf(c, w) == c[CHOOSE i \in 1 .. Len(c) : c[i][1] = w][2]

\* freqs: {word: count / total_words}, kept as <<count, total_words>>
Freqs(c, total_words) ==
    [w \in {c[i][1] : i \in 1 .. Len(c)} |-> <<CountOf(c, w), total_words>>]

\* prob_discard[w] = 1 - sqrt(tensor(threshold / freq)), a float32 value
ProbDiscard(t, freq) ==
    FloatGrid - Sqrt32(Float32(t[1] * freq[2], t[2] * freq[1]))

\* the comprehension of train_words over the first k tokens; ds[k] is the
\* value torch.rand(1).item() returns for token k
RECURSIVE TrainWords(_, _, _, _, _)
TrainWords(ws, v2i, pd, ds, k) ==
    IF k = 0 THEN <<>>
    ELSE TrainWords(ws, v2i, pd, ds, k - 1) \o
         (IF ds[k] > pd[ws[k]] THEN <<v2i[ws[k]]>> ELSE <<>>)

\* what subsample_words returns for the draws ds
subsample_words(ws, v2i, t, ds) ==
    LET word_counts == Counter(ws)
        total_words == Len(ws)
        fr == Freqs(word_counts, total_words)
        prob_discard == [w \in DOMAIN fr |-> ProbDiscard(t, fr[w])]
    IN [train_words |-> TrainWords(ws, v2i, prob_discard, ds, Len(ws)),
        freqs |-> fr]

----------------------------------------------------------------------------
(* get_target *)

\* [words[idx - n] for n in range(rand_window_size, 0, -1) if (idx - n) >= 0],
\* from n down to 1
RECURSIVE back_words(_, _, _)
back_words(ws, i, n) ==
    IF n <= 0 THEN <<>>
    ELSE (IF i - n >= 0 THEN <<PyIndex(ws, i - n)>> ELSE <<>>)
         \o back_words(ws, i, n - 1)

\* back_words with the test (idx - n) > 0
RECURSIVE back_words_strict(_, _, _)
back_words_strict(ws, i, n) ==
    IF n <= 0 THEN <<>>
    ELSE (IF i - n > 0 THEN <<PyIndex(ws, i - n)>> ELSE <<>>)
         \o back_words_strict(ws, i, n - 1)

\* [words[idx + n] for n in range(1, rand_window_size + 1) if (idx + n) < len(words)],
\* from n up to r
RECURSIVE front_words(_, _, _, _)
front_words(ws, i, n, r) ==
    IF n > r THEN <<>>
    ELSE (IF i + n < Len(ws) THEN <<PyIndex(ws, i + n)>> ELSE <<>>)
         \o front_words(ws, i, n + 1, r)

\* get_target with the ranges starting at the target word itself
get_target_from_zero(ws, i, r) ==
    back_words(ws, i, r) \o front_words(ws, i, 0, r)

\* get_target with the back test (idx - n) > 0
get_target_strict(ws, i, r) ==
    back_words_strict(ws, i, r) \o front_words(ws, i, 1, r)

\* the list get_target returns when torch.randint has drawn r
get_target(ws, i, r) ==
    LET back == back_words(ws, i, r)
        front == front_words(ws, i, 1, r)
    IN back \o front

----------------------------------------------------------------------------
(* get_batches *)

\* a loop that stops before a chunk shorter than step
in_range_full(i, stop, step) == step > 0 /\ i + step <= stop

\* whether the loop `for idx in range(0, stop, step)` runs its body for i,
\* i being 0 or the previous idx plus step (step = 0 raises before)
in_range(i, stop, step) == step > 0 /\ i < stop

\* the loop over enumerate(current_words), positions 1 .. k of the chunk done:
\* the two lists after that many positions, rs[k] being the window get_target
\* draws for position k
RECURSIVE expand(_, _, _)
expand(chunk, rs, k) ==
    IF k = 0 THEN [inputs |-> <<>>, targets |-> <<>>]
    ELSE LET done == expand(chunk, rs, k - 1)
             current_word == chunk[k]
             target_words_k == get_target(chunk, k - 1, rs[k])
         IN [inputs |-> done.inputs \o
                        [j \in 1 .. Len(target_words_k) |-> current_word],
             targets |-> done.targets \o target_words_k]

\* a batch whose two lists are appended to the wrong way round
batch_of_swapped(chunk, rs) ==
    [chunk |-> chunk, rs |-> rs,
     inputs |-> expand(chunk, rs, Len(chunk)).targets,
     targets |-> expand(chunk, rs, Len(chunk)).inputs]

\* one iteration of the outer loop: what is yielded for a chunk, with the
\* chunk and the windows drawn for it
batch_of(chunk, rs) ==
    [chunk |-> chunk, rs |-> rs,
     inputs |-> expand(chunk, rs, Len(chunk)).inputs,
     targets |-> expand(chunk, rs, Len(chunk)).targets]

\* a get_batches that checks its sizes when called
get_batches_eager(b, w) ==
    IF b <= 0 \/ w <= 0
    THEN [raised |-> "InvalidArgumentError", gen_state |-> "finished"]
    ELSE [raised |-> "none", gen_state |-> "created"]

\* the call get_batches(words, b, w): a generator function runs none of its
\* body when called
get_batches(b, w) == [raised |-> "none", gen_state |-> "created"]

----------------------------------------------------------------------------
(* cosine_similarity *)

\* whether torch.randint(..., (size,)) raises for its shape
randint_shape_error(size) == size < 0

----------------------------------------------------------------------------
(* The driver *)

Init ==
    /\ pc = "start"
    /\ raised = "none"
    /\ words = <<>>
    /\ vocab_to_int = <<>>
    /\ int_to_vocab = <<>>
    /\ threshold = <<1, 1>>
    /\ draws = <<>>
    /\ train_words = <<>>
    /\ freqs = <<>>
    /\ idx = 0
    /\ window_size = 0
    /\ rand_window_size = 0
    /\ target_words = <<>>
    /\ batch_size = 0
    /\ gen_state = "none"
    /\ gen_idx = 0
    /\ batches = <<>>
    /\ valid_size = 0
    /\ valid_window = 0
    /\ valid_examples = <<>>
    /\ sim_shape = <<0, 0>>

\* vocab_to_int, int_to_vocab = create_lookup_tables(ws)
CreateLookupTables ==
    /\ pc = "start"
    /\ \E ws \in TokenSeqs :
        LET r == create_lookup_tables(ws)
        IN /\ words' = ws
           /\ raised' = r.raised
           /\ vocab_to_int' = r.vocab_to_int
           /\ int_to_vocab' = r.int_to_vocab
    /\ pc' = "tables"
    /\ UNCHANGED <<threshold, draws, train_words, freqs, idx, window_size,
                   rand_window_size, target_words, batch_size, gen_state,
                   gen_idx, batches, valid_size, valid_window, valid_examples,
                   sim_shape>>

\* train_words, freqs = subsample_words(words, vocab_to_int, t), on the
\* tokens the tables were built from; torch.rand draws in [0, 1)
SubsampleWords ==
    /\ pc = "tables"
    /\ \E t \in Thresholds, ds \in [1 .. Len(words) -> 0 .. (FloatGrid - 1)] :
        LET r == subsample_words(words, vocab_to_int, t, ds)
        IN /\ threshold' = t
           /\ draws' = ds
           /\ train_words' = r.train_words
           /\ freqs' = r.freqs
    /\ pc' = "sampled"
    /\ UNCHANGED <<raised, words, vocab_to_int, int_to_vocab, idx, window_size,
                   rand_window_size, target_words, batch_size, gen_state,
                   gen_idx, batches, valid_size, valid_window, valid_examples,
                   sim_shape>>

\* target_words = get_target(ws, i, w), ws non-empty and 0 <= i < len(ws)
GetTarget ==
    /\ pc = "start"
    /\ \E ws \in CodeSeqs \ {<<>>}, i \in 0 .. (MaxLen - 1), w \in WindowSizes :
        /\ i < Len(ws)
        /\ words' = ws
        /\ idx' = i
        /\ window_size' = w
        /\ IF RandintRange(1, w + 1) = {}
           THEN /\ raised' = "RuntimeError"
                /\ UNCHANGED <<rand_window_size, target_words>>
           ELSE \E r \in RandintRange(1, w + 1) :
                /\ rand_window_size' = r
                /\ target_words' = get_target(ws, i, r)
                /\ raised' = "none"
    /\ pc' = "target"
    /\ UNCHANGED <<vocab_to_int, int_to_vocab, threshold, draws, train_words,
                   freqs, batch_size, gen_state, gen_idx, batches, valid_size,
                   valid_window, valid_examples, sim_shape>>

\* gen = get_batches(ws, b, w): the generator object is created
GetBatches ==
    /\ pc = "start"
    /\ \E ws \in CodeSeqs, b \in BatchSizes, w \in WindowSizes :
        /\ words' = ws
        /\ batch_size' = b
        /\ window_size' = w
        /\ raised' = get_batches(b, w).raised
        /\ gen_state' = get_batches(b, w).gen_state
    /\ pc' = "gen"
    /\ UNCHANGED <<vocab_to_int, int_to_vocab, threshold, draws, train_words,
                   freqs, idx, rand_window_size, target_words, gen_idx,
                   batches, valid_size, valid_window, valid_examples,
                   sim_shape>>

\* next(gen): the generator runs to its next yield, to its end or to an
\* exception
NextBatch ==
    /\ pc = "gen"
    /\ gen_state \in {"created", "suspended"}
    /\ LET i == IF gen_state = "created" THEN 0 ELSE gen_idx + batch_size
           current_words == PySlice(words, i, i + batch_size)
       IN IF batch_size = 0
          THEN \* range() arg 3 must not be zero
               /\ raised' = "ValueError"
               /\ gen_state' = "finished"
               /\ UNCHANGED <<gen_idx, batches>>
          ELSE IF ~in_range(i, Len(words), batch_size)
          THEN \* the loop is over: StopIteration
               /\ gen_state' = "finished"
               /\ UNCHANGED <<raised, gen_idx, batches>>
          ELSE IF RandintRange(1, window_size + 1) = {}
          THEN \* the first get_target of the chunk raises
               /\ raised' = "RuntimeError"
               /\ gen_state' = "finished"
               /\ gen_idx' = i
               /\ UNCHANGED batches
          ELSE \E rs \in [1 .. Len(current_words) ->
                              RandintRange(1, window_size + 1)] :
               /\ batches' = Append(batches, batch_of(current_words, rs))
               /\ gen_state' = "suspended"
               /\ gen_idx' = i
               /\ UNCHANGED raised
    /\ UNCHANGED <<pc, words, vocab_to_int, int_to_vocab, threshold, draws,
                   train_words, freqs, idx, window_size, rand_window_size,
                   target_words, batch_size, valid_size, valid_window,
                   valid_examples, sim_shape>>

\* valid_examples, similarities = cosine_similarity(embedding, s, n), the
\* embedding having NumEmbeddings rows without a zero row, 1 <= n <= NumEmbeddings
CosineSimilarity ==
    /\ pc = "start"
    /\ \E s \in ValidSizes, n \in 1 .. NumEmbeddings :
        /\ valid_size' = s
        /\ valid_window' = n
        /\ IF randint_shape_error(s)
           THEN /\ raised' = "RuntimeError"
                /\ UNCHANGED <<valid_examples, sim_shape>>
           ELSE \E ex \in [1 .. s -> RandintRange(0, n)] :
                /\ valid_examples' = ex
                /\ sim_shape' = <<Len(ex), NumEmbeddings>>
                /\ raised' = "none"
    /\ pc' = "cos"
    /\ UNCHANGED <<words, vocab_to_int, int_to_vocab, threshold, draws,
                   train_words, freqs, idx, window_size, rand_window_size,
                   target_words, batch_size, gen_state, gen_idx, batches>>

Next ==
    \/ CreateLookupTables
    \/ SubsampleWords
    \/ GetTarget
    \/ GetBatches
    \/ NextBatch
    \/ CosineSimilarity

Spec == Init /\ [][Next]_vars

----------------------------------------------------------------------------
(* Vocabulary used by the properties, independent of the operators above *)

\* the distinct elements of a sequence
Elements(ws) == {ws[k] : k \in 1 .. Len(ws)}

\* how often w occurs in ws
Occurrences(ws, w) == Cardinality({k \in 1 .. Len(ws) : ws[k] = w})

\* the k-th smallest element of a finite set of integers
KthSmallest(S, k) == CHOOSE q \in S : Cardinality({p \in S : p < q}) = k - 1

\* 0-based positions of a sequence of length n within distance r of position
\* p, p excluded
ContextPositions(n, p, r) ==
    {q \in 0 .. (n - 1) : q # p /\ q - p <= r /\ p - q <= r}

\* the elements of ws at the 0-based positions S, in increasing position order
AtPositions(ws, S) == [k \in 1 .. Cardinality(S) |-> ws[KthSmallest(S, k) + 1]]

\* ceil(n / b) for b >= 1
CeilDiv(n, b) == (n + b - 1) \div b

TablesBuilt == pc \in {"tables", "sampled"}

----------------------------------------------------------------------------
(* Properties *)

\* C1: for a non-empty token sequence the keys of vocab_to_int are exactly
\* the distinct words of the input, the keys of int_to_vocab are exactly
\* 0 .. n-1 for n distinct words, and the two mappings are inverse to each
\* other.
LookupTablesAreInverse ==
    (TablesBuilt /\ words # <<>>) =>
        /\ DOMAIN vocab_to_int = Elements(words)
        /\ DOMAIN int_to_vocab = 0 .. (Cardinality(Elements(words)) - 1)
        /\ \A w \in Elements(words) :
               /\ vocab_to_int[w] \in DOMAIN int_to_vocab
               /\ int_to_vocab[vocab_to_int[w]] = w
        /\ \A i \in DOMAIN int_to_vocab :
               /\ int_to_vocab[i] \in DOMAIN vocab_to_int
               /\ vocab_to_int[int_to_vocab[i]] = i

\* C1 witness: tables built from a sequence in which a word repeats
LookupTablesBuiltWithRepeat ==
    /\ pc = "tables"
    /\ Len(words) = 3
    /\ Cardinality(Elements(words)) = 2
    /\ Cardinality(DOMAIN int_to_vocab) = 2

\* C2: indices follow descending frequency: for indices i < j the word at i
\* occurs at least as often in the input as the word at j, and index 0 holds
\* a word of maximum count.
IndicesByDescendingFrequency ==
    (TablesBuilt /\ words # <<>>) =>
        /\ \A i, j \in DOMAIN int_to_vocab :
               i < j => Occurrences(words, int_to_vocab[i])
                            >= Occurrences(words, int_to_vocab[j])
        /\ 0 \in DOMAIN int_to_vocab
        /\ \A w \in Elements(words) :
               Occurrences(words, int_to_vocab[0]) >= Occurrences(words, w)

\* C2 witness: the most frequent word is not the first word of the input
FrequentWordSeenSecond ==
    /\ pc = "tables"
    /\ words = <<"a", "b", "b">>
    /\ int_to_vocab[0] = "b"
    /\ int_to_vocab[1] = "a"

\* C3: get_target draws R with 1 <= R <= W and returns the words at the
\* positions idx-R .. idx-1 that are >= 0, in increasing order, followed by
\* the words at idx+1 .. idx+R that are < len(words), in increasing order:
\* never the word at idx, nothing farther than W, and no back-words at idx 0.
GetTargetReturnsWindow ==
    (pc = "target" /\ window_size >= 1) =>
        /\ raised = "none"
        /\ rand_window_size \in 1 .. window_size
        /\ target_words =
               AtPositions(words,
                           ContextPositions(Len(words), idx, rand_window_size))
        /\ idx = 0 =>
               target_words =
                   SubSeq(words, 2, Min(1 + rand_window_size, Len(words)))

\* C3 witness: a window clipped at the start of the sequence and not at its end
GetTargetClippedAtStart ==
    /\ pc = "target"
    /\ raised = "none"
    /\ Len(words) = 3
    /\ idx = 1
    /\ rand_window_size = 2
    /\ Len(target_words) = 2

OnlyFullBatches ==
    pc = "gen" =>
        \A k \in 1 .. Len(batches) : Len(batches[k].chunk) = batch_size

\* the (position, context position) pairs of a chunk of length n, rs[p + 1]
\* being the window drawn at position p
Edges(n, rs) ==
    {e \in (0 .. (n - 1)) \X (0 .. (n - 1)) :
        e[2] \in ContextPositions(n, e[1], rs[e[1] + 1])}

\* the place of edge e in the order position ascending, then context position
\* ascending
EdgeRank(E, e) ==
    1 + Cardinality({d \in E : d[1] < e[1] \/ (d[1] = e[1] /\ d[2] < e[2])})

\* C6: in every batch inputs and targets have equal length and are the pairs
\* (chunk[p], chunk[q]) over the positions p of the chunk in ascending order
\* and, for each p, the context positions q of get_target(chunk, p, W) in
\* ascending order: q # p, |q - p| <= W, and both words of the same chunk.
PairsStayInsideChunk ==
    pc = "gen" =>
        \A k \in 1 .. Len(batches) :
            LET b == batches[k]
                n == Len(b.chunk)
                E == Edges(n, b.rs)
            IN /\ \A p \in 1 .. n : b.rs[p] \in 1 .. window_size
               /\ Len(b.inputs) = Len(b.targets)
               /\ Len(b.inputs) = Cardinality(E)
               /\ \A e \in E :
                      /\ b.inputs[EdgeRank(E, e)] = b.chunk[e[1] + 1]
                      /\ b.targets[EdgeRank(E, e)] = b.chunk[e[2] + 1]

\* C6 witness: a second chunk has been expanded into pairs of distinct words
SecondChunkExpanded ==
    /\ pc = "gen"
    /\ batch_size = 2
    /\ Len(batches) = 2
    /\ batches[1].chunk = <<0, 1>>
    /\ batches[2].chunk = <<2>>
    /\ batches[1].inputs = <<0, 1>>
    /\ batches[1].targets = <<1, 0>>

\* the 1-based positions of the tokens whose draw exceeds the discard
\* probability of their word
KeptPositions ==
    {k \in 1 .. Len(words) :
        draws[k] > ProbDiscard(threshold, freqs[words[k]])}

\* first half of C7: a token is kept iff its draw exceeds the discard
\* probability of its word, so train_words is the order-preserving
\* subsequence of the kept tokens mapped through vocab_to_int, each element a
\* valid vocabulary index.
SubsampleKeepsIffDrawExceeds ==
    pc = "sampled" =>
        /\ DOMAIN freqs = Elements(words)
        /\ \A w \in Elements(words) :
               freqs[w] = <<Occurrences(words, w), Len(words)>>
        /\ Len(train_words) = Cardinality(KeptPositions)
        /\ \A j \in 1 .. Len(train_words) :
               /\ train_words[j] = vocab_to_int[words[KthSmallest(KeptPositions, j)]]
               /\ train_words[j] \in DOMAIN int_to_vocab

\* second half of C7: a token whose word has relative frequency below the
\* threshold (count / total < threshold) is always kept.
RareWordsAlwaysKept ==
    pc = "sampled" =>
        \A k \in 1 .. Len(words) :
            Occurrences(words, words[k]) * threshold[2]
                < threshold[1] * Len(words)
            => k \in KeptPositions

\* C7: subsample_words keeps a token iff its draw exceeds the discard
\* probability of its word; the result is an order-preserving subsequence of
\* valid vocabulary indices, and every token whose word has f(w) < threshold
\* is always kept.
SubsampleKeepsRareWords ==
    SubsampleKeepsIffDrawExceeds /\ RareWordsAlwaysKept

\* C8: create_lookup_tables on an empty token sequence fails with an
\* EmptyInputError and returns no mappings.
EmptyInputRaises ==
    (pc = "tables" /\ words = <<>>) => raised # "none"

\* C8 as amended: create_lookup_tables on an empty token sequence raises
\* nothing and returns two empty mappings.
EmptyInputReturnsEmptyTables ==
    (pc = "tables" /\ words = <<>>) =>
        /\ raised = "none"
        /\ DOMAIN vocab_to_int = {}
        /\ DOMAIN int_to_vocab = {}

\* C8 witness: the tables have been built from the empty sequence
TablesBuiltFromEmptyInput ==
    /\ pc = "tables"
    /\ words = <<>>
    /\ DOMAIN vocab_to_int = {}

\* C9: a non-positive size argument is rejected with an error at the start of
\* the call itself: get_batches when it is called, before any batch is
\* pulled, get_target and cosine_similarity when they are called; never an
\* empty result instead of the error.
NonPositiveSizeRejectedEagerly ==
    /\ (pc = "gen" /\ (batch_size <= 0 \/ window_size <= 0)) =>
           raised # "none"
    /\ (pc = "target" /\ window_size <= 0) => raised # "none"
    /\ (pc = "cos" /\ valid_size <= 0) => raised # "none"

\* C9 as amended: the code validates no size argument.  get_target with
\* window_size <= 0 fails at its first statement (torch.randint) and returns
\* nothing.  get_batches never fails when called; with non-positive sizes it
\* never yields a batch: the first pull raises ValueError for batch_size = 0,
\* raises RuntimeError for batch_size >= 1 and window_size <= 0 on a
\* non-empty sequence, and otherwise ends the generator with zero batches and
\* no error.  cosine_similarity returns an empty sample without error for
\* valid_size = 0 and fails in torch.randint for valid_size < 0.
NonPositiveSizeOutcomes ==
    /\ (pc = "target" /\ window_size <= 0) =>
           raised = "RuntimeError" /\ target_words = <<>>
    /\ (pc = "gen" /\ gen_state = "created") => raised = "none"
    /\ (pc = "gen" /\ (batch_size <= 0 \/ window_size <= 0)) =>
           /\ batches = <<>>
           /\ gen_state = "finished" =>
                  raised = (IF batch_size = 0 THEN "ValueError"
                            ELSE IF batch_size < 0 \/ words = <<>> THEN "none"
                            ELSE "RuntimeError")
    /\ (pc = "cos" /\ valid_size = 0) =>
           /\ raised = "none"
           /\ valid_examples = <<>>
           /\ sim_shape = <<0, NumEmbeddings>>
    /\ (pc = "cos" /\ valid_size < 0) => raised = "RuntimeError"

\* C9 witness: a generator with a negative batch_size has ended without a
\* batch and without an error
NegativeBatchSizeEndedSilently ==
    /\ pc = "gen"
    /\ batch_size < 0
    /\ words # <<>>
    /\ gen_state = "finished"
    /\ raised = "none"
    /\ batches = <<>>

\* C10: get_target returns an empty list exactly for a one-element sequence
\* (non-empty for every longer sequence, every valid idx and every W >= 1),
\* and a one-token chunk of get_batches yields empty inputs and targets.
EmptyContextOnlyForSingleton ==
    /\ (pc = "target" /\ window_size >= 1) =>
           /\ raised = "none"
           /\ (target_words = <<>>) <=> (Len(words) = 1)
    /\ pc = "gen" =>
           \A k \in 1 .. Len(batches) :
               /\ Len(batches[k].chunk) = 1 =>
                      batches[k].inputs = <<>> /\ batches[k].targets = <<>>
               /\ Len(batches[k].chunk) >= 2 => batches[k].targets # <<>>

\* C10 witness: a final chunk of one token has been yielded as an empty batch
OneTokenChunkYieldedEmpty ==
    /\ pc = "gen"
    /\ Len(words) = 3
    /\ batch_size = 2
    /\ Len(batches) = 2
    /\ batches[2].inputs = <<>>
    /\ batches[2].targets = <<>>

====
